---- MODULE Spec2Model ----
(***************************************************************************)
(* Model of the C-867.2U2 device adaptor (src/pi_C_867_2U2.py, class       *)
(* Controller): the _send / _check_errors transaction engine, the          *)
(* _finish_moving completion poll, move_mm, get_position_mm and the        *)
(* setters, running against a serial port whose replies (content and       *)
(* timing) are chosen by the device.                                       *)
(*                                                                         *)
(* Representation.                                                         *)
(*  - A byte is its ASCII code; a line is a sequence of bytes.             *)
(*  - A number printed in a reply or in a command is one token: the        *)
(*    token of the integer v is NumBase + v (any value >= NumBase - 500    *)
(*    that is no ASCII code used here).                                    *)
(*  - Positions are integers in units of 1/PosScale of the last digit      *)
(*    that '%0.9f' prints; Fmt9 rounds to that digit.                      *)
(*  - Micrometre values are integers in units of 1/UmScale um.             *)
(*  - The driver is sequential: pc is the list of steps still to run       *)
(*    (the continuation of the running public call); pc = << >> between    *)
(*    calls.                                                               *)
(***************************************************************************)
EXTENDS Integers, Sequences, FiniteSets, TLC

\* ------------------------------------------------------------- bounds
MaxCalls == 2
MaxPolls == 2
MaxTimeouts == 1
MaxErrs == 1
MaxLines == 2
MaxPos == 2
MaxTx == 26
MaxJoy == 1

\* ---------------------------------------------------------- constants
NL == 10
SP == 32
CH0 == 48
CH1 == 49
CHEQ == 61
CHA == 97
PosScale == 2
UmScale == 10
NumBase == 1000

\* -------------------------------------------------------- byte helpers
Tok(v) == NumBase + v
IsTok(b) == b >= NumBase - 500
TokVal(b) == b - NumBase

IsSpace(b) == b \in {SP, NL, 9, 11, 12, 13}

RECURSIVE rstrip(_)
rstrip(s) ==
  IF s = << >> THEN << >>
  ELSE IF IsSpace(s[Len(s)]) THEN rstrip(SubSeq(s, 1, Len(s) - 1))
  ELSE s

endswithNL(s) == Len(s) >= 1 /\ s[Len(s)] = NL

\* index of the first NL of s, 0 when s holds none
RECURSIVE FirstNLfrom(_, _)
FirstNLfrom(s, i) ==
  IF i > Len(s) THEN 0
  ELSE IF s[i] = NL THEN i
  ELSE FirstNLfrom(s, i + 1)

FirstNL(s) == FirstNLfrom(s, 1)

\* mutant of LastLine: the test looks at the last byte instead of the one before it
LastLineOffByOne(response) ==
  \/ Len(response) = 1
  \/ response[Len(response)] # SP

\* the loop exit test of _send's read loop
LastLine(response) ==
  \/ Len(response) = 1
  \/ response[Len(response) - 1] # SP

\* a.split('=')[1] then float()/int(): the number token after the first '='
RECURSIVE IndexOf(_, _, _)
IndexOf(s, b, i) ==
  IF i > Len(s) THEN 0
  ELSE IF s[i] = b THEN i
  ELSE IndexOf(s, b, i + 1)

Parses(a) ==
  LET i == IndexOf(a, CHEQ, 1)
  IN  i > 0 /\ Len(a) = i + 1 /\ IsTok(a[i + 1])

ParseVal(a) == TokVal(a[IndexOf(a, CHEQ, 1) + 1])

\* ------------------------------------------------------------ commands
\* A command line written to the port: its mnemonic and its two numeric
\* arguments (0 where it has none).
Cmd(n, a, b) == [n |-> n, a |-> a, b |-> b]
NoCmd == Cmd("", 0, 0)

\* '%0.9f' % v : v rounded to the last printed digit (ties to the even digit)
Fmt9(v) ==
  LET q == v \div PosScale
      r == v % PosScale
  IN  IF 2 * r < PosScale THEN q * PosScale
      ELSE IF 2 * r > PosScale THEN (q + 1) * PosScale
      ELSE IF q % 2 = 0 THEN q * PosScale
      ELSE (q + 1) * PosScale

\* int(n / d) for d > 0: truncation toward zero
Trunc(n, d) == IF n >= 0 THEN n \div d ELSE -((-n) \div d)

\* steps of the continuation
Frame(l, c) == [l |-> l, c |-> c]
F(l) == Frame(l, NoCmd)

\* the body of _send(cmd, respond) followed by _check_errors()
check_errors == << F("err_write"), F("err_read") >>

send(c, respond) ==
  << Frame("write", c) >>
  \o (IF respond THEN << F("readline") >> ELSE << >>)
  \o << F("inwait") >>
  \o check_errors

\* ----------------------------------------------------------- variables
VARIABLES
  self,     \* the Controller's attributes
  dev,      \* the device behind the port
  rxq,      \* bytes the device owes the driver: sent (or about to be) and not yet read
  pc,       \* steps of the running call still to execute
  resp,     \* _send's local list 'responses'
  call,     \* the running (or last) public call: name, arguments, outcome, attributes
            \* and unread input at entry
  pcall,    \* the call before it
  tx,       \* commands written to the port during 'call', in order
  ncalls,   \* calls started
  nto,      \* reads that timed out although their line was owed
  nerr,     \* commands the device has rejected
  owed,     \* rxq as it stood right after the last write
  in_waiting, \* what self.port.in_waiting gave when _send last looked at it
  njoy      \* times the operator has moved the stage with the joystick

vars == << self, dev, rxq, pc, resp, call, pcall, tx, ncalls, nto, nerr, owed,
           in_waiting, njoy >>

\* ------------------------------------------------------------- device
\* Lines a device may print for a free-form query (HLP?)
LineSet == { << NL >>, << CHA, NL >>, << CHA, SP, NL >>, << SP, NL >> }

RECURSIVE Flatten(_)
Flatten(ls) == IF ls = << >> THEN << >> ELSE Head(ls) \o Flatten(Tail(ls))

Scripts == UNION { [1..n -> LineSet] : n \in 1..MaxLines }

IsQuery(c) == c.n \in {"MOV?", "HLP?", "RMC?"}

\* what the device prints on receiving command c in state d
Replies(d, c) ==
  CASE c.n = "ERR?" -> { << CH0 + d.err, NL >> }
    [] c.n = "ENQ"  -> { << (IF d.busy > 0 THEN CH1 ELSE CH0), NL >> }
    [] c.n = "MOV?" -> { << CH1, CHEQ, Tok(d.x), SP, NL,
                            CH1 + 1, CHEQ, Tok(d.y), NL >> }
    [] c.n = "RMC?" -> { IF d.macro > 0 THEN << CHA, NL >> ELSE << NL >> }
    [] c.n = "HLP?" -> { Flatten(s) : s \in Scripts }
    [] OTHER        -> { << >> }

\* the device's state after command c; ok: the device accepts it (a rejected
\* command only sets the error register, a rejected query is still answered);
\* k: how many status polls the motion (or start-up macro) it starts will outlast
DevNext(d, c, ok, k) ==
  CASE ~ok          -> [d EXCEPT !.err = 1]
    [] c.n = "ERR?" -> [d EXCEPT !.err = 0]
    [] c.n = "ENQ"  -> [d EXCEPT !.busy = IF d.busy > 0 THEN d.busy - 1 ELSE 0]
    [] c.n = "RMC?" -> [d EXCEPT !.macro = IF d.macro > 0 THEN d.macro - 1 ELSE 0]
    [] c.n = "RBT"  -> [d EXCEPT !.macro = k, !.err = 0, !.busy = 0]
    [] c.n = "HIN"  -> IF c.a = 1 THEN [d EXCEPT !.hin1 = (c.b = 1)]
                                  ELSE [d EXCEPT !.hin2 = (c.b = 1)]
    [] c.n = "SVO"  -> [d EXCEPT !.svo = (c.a = 1)]
    [] c.n = "MOV"  -> [d EXCEPT !.x = c.a, !.y = c.b, !.busy = k]
    [] c.n = "VEL"  -> [d EXCEPT !.xv = c.a, !.yv = c.b]
    [] c.n = "ACC"  -> [d EXCEPT !.xa = c.a, !.ya = c.b]
    [] c.n = "DEC"  -> [d EXCEPT !.xd = c.a, !.yd = c.b]
    [] OTHER        -> d

\* The runs explored have a device that misbehaves (late replies, rejected
\* commands) or an operator at the joystick, not both.
Faultless == nto = 0 /\ nerr = 0
Unattended == njoy = 0

CanReject(c) == c.n \notin {"ERR?", "ENQ", "RBT"}
Starts(c) == c.n \in {"MOV", "RBT"}

\* self.port.write(cmd): the command reaches the device, which owes its reply
PortWrite(c) ==
  /\ Len(tx) < MaxTx
  /\ tx' = Append(tx, c)
  /\ \E ok \in (IF CanReject(c) /\ nerr < MaxErrs /\ Unattended THEN BOOLEAN ELSE {TRUE}),
        k \in (IF Starts(c) THEN 0..MaxPolls ELSE {0}),
        rep \in Replies(dev, c) :
       /\ dev' = DevNext(dev, c, ok, k)
       /\ rxq' = rxq \o rep
       /\ owed' = rxq \o rep
       /\ nerr' = IF ok THEN nerr ELSE nerr + 1

\* self.port.readline() with timeout=5: the owed line when it arrives in time,
\* else the bytes that did arrive (none, or all but the terminator; whatever
\* is left of a line nobody terminates). Set of <<bytes read, bytes left,
\* timed out although a line was owed>>.
ReadLineOutcomes ==
  LET i == FirstNL(rxq)
  IN  (IF i > 0
       THEN { << SubSeq(rxq, 1, i), SubSeq(rxq, i + 1, Len(rxq)), FALSE >> }
       ELSE { })
      \cup
      (IF i = 0
       THEN { << SubSeq(rxq, 1, k), SubSeq(rxq, k + 1, Len(rxq)), FALSE >> :
              k \in 0..Len(rxq) }
       ELSE IF nto < MaxTimeouts /\ Unattended
       THEN { << SubSeq(rxq, 1, k), SubSeq(rxq, k + 1, Len(rxq)), TRUE >> :
              k \in {0, i - 1} }
       ELSE { })

\* self.port.read(2) with timeout=5
Read2Outcomes ==
  (IF Len(rxq) >= 2
   THEN { << SubSeq(rxq, 1, 2), SubSeq(rxq, 3, Len(rxq)), FALSE >> }
   ELSE { << SubSeq(rxq, 1, k), SubSeq(rxq, k + 1, Len(rxq)), FALSE >> :
          k \in 0..Len(rxq) })
  \cup
  (IF Len(rxq) >= 2 /\ nto < MaxTimeouts /\ Unattended
   THEN { << SubSeq(rxq, 1, k), SubSeq(rxq, k + 1, Len(rxq)), TRUE >> : k \in 0..1 }
   ELSE { })

\* ------------------------------------------------- control of the call
\* the step returns into the rest of the call (or the call returns)
Goto(rest) ==
  /\ pc' = rest
  /\ call' = IF rest = << >> THEN [call EXCEPT !.status = "returned"] ELSE call

\* an exception leaves the call
Raise(kind) ==
  /\ pc' = << >>
  /\ call' = [call EXCEPT !.status = kind]

At(l) == pc # << >> /\ Head(pc).l = l

\* -------------------------------------------- _send and _check_errors
\* line 122: self.port.write(cmd + b'\n'); line 124: responses = []
SendWrite ==
  /\ At("write")
  /\ PortWrite(Head(pc).c)
  /\ resp' = << >>
  /\ Goto(Tail(pc))
  /\ UNCHANGED << in_waiting, njoy, self, pcall, ncalls, nto >>

\* lines 125-130: one turn of the read loop
SendReadLine ==
  /\ At("readline")
  /\ \E o \in ReadLineOutcomes :
       /\ rxq' = o[2]
       /\ nto' = IF o[3] THEN nto + 1 ELSE nto
       /\ IF ~endswithNL(o[1])
          THEN Raise("framing") /\ resp' = resp
          ELSE /\ resp' = Append(resp, rstrip(o[1]))
               /\ IF LastLine(o[1]) THEN Goto(Tail(pc)) ELSE Goto(pc)
  /\ UNCHANGED << in_waiting, njoy, self, dev, pcall, tx, ncalls, nerr, owed >>

\* mutant of SendInWaiting: the pending input is looked at and not asserted on
SendInWaitingUnchecked ==
  /\ At("inwait")
  /\ \E n \in {0, Len(rxq)} :
       /\ in_waiting' = n
       /\ Goto(Tail(pc))
  /\ UNCHANGED << njoy, self, dev, rxq, resp, pcall, tx, ncalls, nto, nerr, owed >>

\* line 135: assert self.port.in_waiting == 0. The port counts the bytes
\* that have arrived: everything that is owed, or none of it yet.
SendInWaiting ==
  /\ At("inwait")
  /\ \E n \in {0, Len(rxq)} :
       /\ in_waiting' = n
       /\ IF n = 0 THEN Goto(Tail(pc)) ELSE Raise("framing")
  /\ UNCHANGED << njoy, self, dev, rxq, resp, pcall, tx, ncalls, nto, nerr, owed >>

\* line 140: self.port.write(b'ERR?\n')
ErrWrite ==
  /\ At("err_write")
  /\ PortWrite(Cmd("ERR?", 0, 0))
  /\ Goto(Tail(pc))
  /\ UNCHANGED << in_waiting, njoy, self, resp, pcall, ncalls, nto >>

\* mutant of ErrRead: the error line is read and never raised
ErrReadNoRaise ==
  /\ At("err_read")
  /\ \E o \in ReadLineOutcomes :
       /\ rxq' = o[2]
       /\ nto' = IF o[3] THEN nto + 1 ELSE nto
       /\ self' = [self EXCEPT !.error = o[1]]
       /\ Goto(Tail(pc))
  /\ UNCHANGED << in_waiting, njoy, dev, resp, pcall, tx, ncalls, nerr, owed >>

\* lines 141-145: self.error = self.port.readline(); raise unless b'0\n'
ErrRead ==
  /\ At("err_read")
  /\ \E o \in ReadLineOutcomes :
       /\ rxq' = o[2]
       /\ nto' = IF o[3] THEN nto + 1 ELSE nto
       /\ self' = [self EXCEPT !.error = o[1]]
       /\ IF o[1] # << CH0, NL >>
          THEN Raise("device_error")
          ELSE Goto(Tail(pc))
  /\ UNCHANGED << in_waiting, njoy, dev, resp, pcall, tx, ncalls, nerr, owed >>

\* ------------------------------------------------------ unit conversion
\* int(1e-3 * um * ecpu): micrometres (in 1/UmScale um) to encoder counts
UmToCounts(um, ecpu) == Trunc(um * ecpu, 1000 * UmScale)

\* 1e3 * counts / ecpu: encoder counts to micrometres (in 1/UmScale um)
CountsToUm(counts, ecpu) == (1000 * UmScale * counts) \div ecpu

\* '%i' % (counts - margin), margin in micrometres
EnterArg(counts, margin) == Trunc(counts * UmScale - margin, UmScale)

\* -------------------------------------------------------------- inputs
X_max == PosScale * MaxPos
NoArg == << >>
Arg(v) == << v >>
Given(arg, default) == IF arg = NoArg THEN default ELSE arg[1]

MoveInputs == { << PosScale + 1, PosScale >>, << X_max + 1, 0 >>, << 0, 0 - PosScale >> }
RateInputs == { << Arg(1), NoArg >>, << Arg(3), NoArg >>, << NoArg, Arg(0 - 1) >> }
TimeInputs == { << Arg(2), NoArg >>, << Arg(1001), NoArg >>, << NoArg, Arg(0 - 1) >> }
\* <<xpt, ypt, margin>>; margin=0.1 is the default
TolInputs  == { << NoArg, NoArg, 1 >>, << Arg(10), Arg(10), 1 >>,
                << Arg(10), Arg(10), 10 >>, << Arg(40), Arg(10), 1 >>,
                << Arg(10), Arg(40), 1 >>, << Arg(10), Arg(20), 1 >> }
EcpuInputs == { << 1000, 1000 >>, << 1000, 2000 >> }

\* ---------------------------------------------------------------- Init
\* The state __init__ leaves (lines 23-73): the attributes read from the
\* device, servo and joystick enabled, not moving, nothing owed on the port.
InitWith(ecpus, counts, counts_max) ==
  /\ \E e \in ecpus, xptc \in counts, yptc \in counts :
       self = [ x |-> PosScale, y |-> PosScale,
                x_min |-> 0, x_max |-> X_max, y_min |-> 0, y_max |-> X_max,
                x_ecpu |-> e[1], y_ecpu |-> e[2],
                xptc |-> xptc, yptc |-> yptc,
                xpt |-> CountsToUm(xptc, e[1]), ypt |-> CountsToUm(yptc, e[2]),
                xptc_max |-> counts_max, yptc_max |-> counts_max,
                xst |-> 1, yst |-> 1,
                xv |-> 2, yv |-> 2, xv_max |-> 2, yv_max |-> 2,
                xa |-> 2, ya |-> 2, xa_max |-> 2, ya_max |-> 2,
                xd |-> 2, yd |-> 2, xd_max |-> 2, yd_max |-> 2,
                moving |-> FALSE, joystick_enabled |-> TRUE, servo_enabled |-> TRUE,
                error |-> << CH0, NL >>, cmd_list |-> << >> ]
  /\ dev = [ x |-> PosScale, y |-> PosScale, hin1 |-> TRUE, hin2 |-> TRUE,
             svo |-> TRUE, err |-> 0, busy |-> 0, macro |-> 0,
             xv |-> 2, yv |-> 2, xa |-> 2, ya |-> 2, xd |-> 2, yd |-> 2 ]
  /\ rxq = << >>
  /\ pc = << >>
  /\ resp = << >>
  /\ call = [ op |-> "__init__", a |-> NoArg, b |-> NoArg, m |-> 0,
              rel |-> FALSE, block |-> FALSE, status |-> "returned", pre |-> self,
              rx |-> << >> ]
  /\ pcall = [ op |-> "", rel |-> FALSE, block |-> FALSE, status |-> "",
               joy |-> FALSE, mov |-> FALSE, hin |-> << >> ]
  /\ tx = << >>
  /\ ncalls = 0
  /\ nto = 0
  /\ nerr = 0
  /\ owed = << >>
  /\ in_waiting = 0
  /\ njoy = 0

Init == InitWith(EcpuInputs, { 2 }, 4)

\* ------------------------------------------------------- public calls
IsHin(c) == c.n = "HIN"

\* a caller invokes a method: the previous call has returned or raised
Enter(op, a, b, m, rel, block, steps) ==
  /\ pc = << >>
  /\ ncalls < MaxCalls
  /\ ncalls' = ncalls + 1
  /\ pc' = steps
  /\ call' = [ op |-> op, a |-> a, b |-> b, m |-> m, rel |-> rel, block |-> block,
               status |-> "running", pre |-> self, rx |-> rxq ]
  /\ pcall' = [ op |-> call.op, rel |-> call.rel, block |-> call.block,
                status |-> call.status, joy |-> call.pre.joystick_enabled,
                mov |-> call.pre.moving,
                hin |-> SelectSeq(tx, IsHin) ]
  /\ tx' = << >>

\* a call whose assert fails before any I/O
Reject(op, a, b, m) ==
  /\ pc = << >>
  /\ ncalls < MaxCalls
  /\ ncalls' = ncalls + 1
  /\ pc' = << >>
  /\ call' = [ op |-> op, a |-> a, b |-> b, m |-> m, rel |-> FALSE, block |-> FALSE,
               status |-> "range", pre |-> self, rx |-> rxq ]
  /\ pcall' = [ op |-> call.op, rel |-> call.rel, block |-> call.block,
                status |-> call.status, joy |-> call.pre.joystick_enabled,
                mov |-> call.pre.moving,
                hin |-> SelectSeq(tx, IsHin) ]
  /\ tx' = << >>

\* mutant of finish_moving: it returns at once, moving or not
finish_moving_skipped(moving) == << >>

\* _finish_moving (lines 231-244): nothing when not moving, else the poll loop
finish_moving(moving) ==
  IF ~moving THEN << >> ELSE << F("poll_write"), F("poll_read") >>

\* lines 235: self.port.write(b'\x05')
PollWrite ==
  /\ At("poll_write")
  /\ PortWrite(Cmd("ENQ", 0, 0))
  /\ Goto(Tail(pc))
  /\ UNCHANGED << in_waiting, njoy, self, resp, pcall, ncalls, nto >>

\* mutant of PollRead: the loop ends on the first reply, settled or not
PollReadOnce ==
  /\ At("poll_read")
  /\ \E o \in Read2Outcomes :
       /\ rxq' = o[2]
       /\ nto' = IF o[3] THEN nto + 1 ELSE nto
       /\ self' = [self EXCEPT !.moving = FALSE]
       /\ Goto((IF self.joystick_enabled
                THEN send(Cmd("HIN", 1, 1), FALSE) \o send(Cmd("HIN", 2, 1), FALSE)
                ELSE << >>)
               \o check_errors \o Tail(pc))
  /\ UNCHANGED << in_waiting, njoy, dev, resp, pcall, tx, ncalls, nerr, owed >>

\* lines 236-243: response = self.port.read(2); loop unless b'0\n'; then
\* _moving = False, re-enable the joystick, _check_errors
PollRead ==
  /\ At("poll_read")
  /\ \E o \in Read2Outcomes :
       /\ rxq' = o[2]
       /\ nto' = IF o[3] THEN nto + 1 ELSE nto
       /\ IF o[1] = << CH0, NL >>
          THEN /\ self' = [self EXCEPT !.moving = FALSE]
               /\ Goto((IF self.joystick_enabled
                        THEN send(Cmd("HIN", 1, 1), FALSE) \o send(Cmd("HIN", 2, 1), FALSE)
                        ELSE << >>)
                       \o check_errors \o Tail(pc))
          ELSE /\ self' = self
               /\ Goto(finish_moving(TRUE) \o Tail(pc))
  /\ UNCHANGED << in_waiting, njoy, dev, resp, pcall, tx, ncalls, nerr, owed >>

\* get_position_mm (lines 222-229)
get_position_mm == send(Cmd("MOV?", 1, 2), TRUE) \o << F("gp_store") >>

GetPosition ==
  /\ Enter("get_position_mm", NoArg, NoArg, 0, FALSE, FALSE, get_position_mm)
  /\ UNCHANGED << in_waiting, njoy, self, dev, rxq, resp, nto, nerr, owed >>

\* mutant of GetPositionStore: reading the position also clears the moving flag
GetPositionStoreIdle ==
  /\ At("gp_store")
  /\ IF Len(resp) = 2 /\ Parses(resp[1]) /\ Parses(resp[2])
     THEN /\ self' = [self EXCEPT !.x = ParseVal(resp[1]), !.y = ParseVal(resp[2]),
                                  !.moving = FALSE]
          /\ Goto(Tail(pc))
     ELSE /\ self' = self
          /\ Raise("parse")
  /\ UNCHANGED << in_waiting, njoy, dev, rxq, resp, pcall, tx, ncalls, nto, nerr, owed >>

\* lines 225-226: self.x, self.y = [float(a.split('=')[1]) for a in responses]
GetPositionStore ==
  /\ At("gp_store")
  /\ IF Len(resp) = 2 /\ Parses(resp[1]) /\ Parses(resp[2])
     THEN /\ self' = [self EXCEPT !.x = ParseVal(resp[1]), !.y = ParseVal(resp[2])]
          /\ Goto(Tail(pc))
     ELSE /\ self' = self
          /\ Raise("parse")
  /\ UNCHANGED << in_waiting, njoy, dev, rxq, resp, pcall, tx, ncalls, nto, nerr, owed >>

\* mutant of InLimits: only the x axis is asserted
InLimitsXOnly(s) == s.x_min <= s.x /\ s.x <= s.x_max

\* move_mm (lines 247-268)
InLimits(s) ==
  /\ s.x_min <= s.x /\ s.x <= s.x_max
  /\ s.y_min <= s.y /\ s.y <= s.y_max

\* line 248: self._finish_moving()
MoveMM ==
  \E xy \in MoveInputs, rel \in BOOLEAN, block \in BOOLEAN :
    /\ Enter("move_mm", Arg(xy[1]), Arg(xy[2]), 0, rel, block,
             finish_moving(self.moving) \o << F("mv_joy") >>)
    /\ UNCHANGED << in_waiting, njoy, self, dev, rxq, resp, nto, nerr, owed >>

\* mutant of MoveJoystick: the joystick is left enabled
MoveJoystickKept ==
  /\ At("mv_joy")
  /\ Goto((IF call.rel THEN get_position_mm ELSE << >>)
          \o << F("mv_target") >> \o Tail(pc))
  /\ UNCHANGED << in_waiting, njoy, self, dev, rxq, resp, pcall, tx, ncalls, nto, nerr, owed >>

\* mutant of MoveJoystick: a relative move trusts the cached position
MoveJoystickStale ==
  /\ At("mv_joy")
  /\ Goto((IF self.joystick_enabled
           THEN send(Cmd("HIN", 1, 0), FALSE) \o send(Cmd("HIN", 2, 0), FALSE)
           ELSE << >>)
          \o << F("mv_target") >> \o Tail(pc))
  /\ UNCHANGED << in_waiting, njoy, self, dev, rxq, resp, pcall, tx, ncalls, nto, nerr, owed >>

\* lines 249-253: disable the joystick; a relative move re-reads the position
MoveJoystick ==
  /\ At("mv_joy")
  /\ Goto((IF self.joystick_enabled
           THEN send(Cmd("HIN", 1, 0), FALSE) \o send(Cmd("HIN", 2, 0), FALSE)
           ELSE << >>)
          \o (IF call.rel THEN get_position_mm ELSE << >>)
          \o << F("mv_target") >> \o Tail(pc))
  /\ UNCHANGED << in_waiting, njoy, self, dev, rxq, resp, pcall, tx, ncalls, nto, nerr, owed >>

\* lines 254-260: the target goes into self.x, self.y, then the limits are asserted
MoveTarget ==
  /\ At("mv_target")
  /\ LET t == IF call.rel
              THEN [self EXCEPT !.x = self.x + call.a[1], !.y = self.y + call.b[1]]
              ELSE [self EXCEPT !.x = call.a[1], !.y = call.b[1]]
     IN  /\ self' = t
         /\ IF InLimits(t)
            THEN Goto(send(Cmd("MOV", Fmt9(t.x), Fmt9(t.y)), FALSE)
                      \o << F("mv_flag") >> \o Tail(pc))
            ELSE Raise("range")
  /\ UNCHANGED << in_waiting, njoy, dev, rxq, resp, pcall, tx, ncalls, nto, nerr, owed >>

\* mutant of MoveFlag: a blocking move does not wait either
MoveFlagNoWait ==
  /\ At("mv_flag")
  /\ self' = [self EXCEPT !.moving = TRUE]
  /\ Goto(Tail(pc))
  /\ UNCHANGED << in_waiting, njoy, dev, rxq, resp, pcall, tx, ncalls, nto, nerr, owed >>

\* lines 265-267: self._moving = True; if block: self._finish_moving()
MoveFlag ==
  /\ At("mv_flag")
  /\ self' = [self EXCEPT !.moving = TRUE]
  /\ Goto((IF call.block THEN finish_moving(TRUE) ELSE << >>) \o Tail(pc))
  /\ UNCHANGED << in_waiting, njoy, dev, rxq, resp, pcall, tx, ncalls, nto, nerr, owed >>

\* ------------------------------------------------------------- setters
\* A setter first stores its arguments (omitted ones default to the cached
\* value), then asserts the range, then sends.
InRange(v, max) == 0 <= v /\ v <= max

\* 0 <= self.xst <= 1000 and 0 <= self.yst <= 1000 (line 296)
MaxSettle == 1000

Setter(op, in, upd, ok, c) ==
  /\ self' = upd
  /\ IF ok
     THEN Enter(op, in[1], in[2], 0, FALSE, FALSE, send(c, FALSE))
     ELSE Reject(op, in[1], in[2], 0)
  /\ UNCHANGED << in_waiting, njoy, dev, rxq, resp, nto, nerr, owed >>

\* set_velocity (lines 306-317)
SetVelocity ==
  \E in \in RateInputs :
    LET xv == Given(in[1], self.xv)
        yv == Given(in[2], self.yv)
    IN  Setter("set_velocity", in, [self EXCEPT !.xv = xv, !.yv = yv],
               InRange(xv, self.xv_max) /\ InRange(yv, self.yv_max),
               Cmd("VEL", xv, yv))

\* set_acceleration (lines 319-330)
SetAcceleration ==
  \E in \in RateInputs :
    LET xa == Given(in[1], self.xa)
        ya == Given(in[2], self.ya)
    IN  Setter("set_acceleration", in, [self EXCEPT !.xa = xa, !.ya = ya],
               InRange(xa, self.xa_max) /\ InRange(ya, self.ya_max),
               Cmd("ACC", xa, ya))

\* set_deceleration (lines 332-343); line 339 writes 'ACC'
SetDeceleration ==
  \E in \in RateInputs :
    LET xd == Given(in[1], self.xd)
        yd == Given(in[2], self.yd)
    IN  Setter("set_deceleration", in, [self EXCEPT !.xd = xd, !.yd = yd],
               InRange(xd, self.xd_max) /\ InRange(yd, self.yd_max),
               Cmd("ACC", xd, yd))

\* set_settling_time_ms (lines 292-304)
SetSettlingTime ==
  \E in \in TimeInputs :
    LET xst == Given(in[1], self.xst)
        yst == Given(in[2], self.yst)
    IN  Setter("set_settling_time_ms", in, [self EXCEPT !.xst = xst, !.yst = yst],
               InRange(xst, MaxSettle) /\ InRange(yst, MaxSettle),
               Cmd("SPA 0x3F", xst, yst))

\* set_positional_tolerance_um (lines 270-290)
\* lines 271-275
TolCounts(s, in, margin) ==
  [ xptc |-> UmToCounts(Given(in[1], s.xpt), s.x_ecpu),
    yptc |-> UmToCounts(Given(in[2], s.ypt), s.x_ecpu),
    margin_counts |-> UmToCounts(margin, s.x_ecpu) ]

\* lines 276-278
TolAccepts(s, t) ==
  /\ t.xptc < s.xptc_max /\ t.yptc <= s.yptc_max
  /\ t.xptc - t.margin_counts > 0 /\ t.yptc - t.margin_counts > 0

SetToleranceOf(in) ==
  LET margin == in[3]
      t == TolCounts(self, in, margin)
  IN  /\ self' = [self EXCEPT !.xptc = t.xptc, !.yptc = t.yptc]
      /\ IF TolAccepts(self, t)
         THEN Enter("set_positional_tolerance_um", in[1], in[2], margin, FALSE, FALSE,
                    send(Cmd("SPA 0x407", t.xptc, t.yptc), FALSE)
                    \o send(Cmd("SPA 0x406", EnterArg(t.xptc, margin),
                                EnterArg(t.yptc, margin)), FALSE)
                    \o << F("tol_store") >>)
         ELSE Reject("set_positional_tolerance_um", in[1], in[2], margin)
      /\ UNCHANGED << in_waiting, njoy, dev, rxq, resp, nto, nerr, owed >>

SetTolerance == \E in \in TolInputs : SetToleranceOf(in)

\* lines 285-286
ToleranceStore ==
  /\ At("tol_store")
  /\ self' = [self EXCEPT !.xpt = CountsToUm(self.xptc, self.x_ecpu),
                          !.ypt = CountsToUm(self.yptc, self.y_ecpu)]
  /\ Goto(Tail(pc))
  /\ UNCHANGED << in_waiting, njoy, dev, rxq, resp, pcall, tx, ncalls, nto, nerr, owed >>

\* ------------------------------------------------- developer functions
\* _enable_joystick (lines 196-206)
EnableJoystick ==
  \E enable \in BOOLEAN :
    LET v == IF enable THEN 1 ELSE 0
    IN  /\ Enter("_enable_joystick", Arg(v), NoArg, 0, FALSE, FALSE,
                 send(Cmd("HIN", 1, v), FALSE) \o send(Cmd("HIN", 2, v), FALSE)
                 \o << F("joy_store") >>)
        /\ UNCHANGED << in_waiting, njoy, self, dev, rxq, resp, nto, nerr, owed >>

\* line 205
JoystickStore ==
  /\ At("joy_store")
  /\ self' = [self EXCEPT !.joystick_enabled = (call.a = Arg(1))]
  /\ Goto(Tail(pc))
  /\ UNCHANGED << in_waiting, njoy, dev, rxq, resp, pcall, tx, ncalls, nto, nerr, owed >>

\* _enable_servo (lines 186-194)
EnableServo ==
  \E enable \in BOOLEAN :
    LET v == IF enable THEN 1 ELSE 0
    IN  /\ Enter("_enable_servo", Arg(v), NoArg, 0, FALSE, FALSE,
                 send(Cmd("SVO", v, v), FALSE) \o << F("svo_store") >>)
        /\ UNCHANGED << in_waiting, njoy, self, dev, rxq, resp, nto, nerr, owed >>

\* line 193
ServoStore ==
  /\ At("svo_store")
  /\ self' = [self EXCEPT !.servo_enabled = (call.a = Arg(1))]
  /\ Goto(Tail(pc))
  /\ UNCHANGED << in_waiting, njoy, dev, rxq, resp, pcall, tx, ncalls, nto, nerr, owed >>

\* _get_cmd_list (lines 147-155)
GetCmdList ==
  /\ Enter("_get_cmd_list", NoArg, NoArg, 0, FALSE, FALSE,
           send(Cmd("HLP?", 0, 0), TRUE) \o << F("cl_store") >>)
  /\ UNCHANGED << in_waiting, njoy, self, dev, rxq, resp, nto, nerr, owed >>

\* line 150
CmdListStore ==
  /\ At("cl_store")
  /\ self' = [self EXCEPT !.cmd_list = resp]
  /\ Goto(Tail(pc))
  /\ UNCHANGED << in_waiting, njoy, dev, rxq, resp, pcall, tx, ncalls, nto, nerr, owed >>

\* _reboot (lines 208-220), finish_macro=True
\* lines 210-212: RBT is written directly, then the error check
Reboot ==
  /\ Enter("_reboot", NoArg, NoArg, 0, FALSE, FALSE,
           << Frame("rbt_write", Cmd("RBT", 0, 0)) >> \o check_errors
           \o send(Cmd("RMC?", 0, 0), TRUE) \o << F("rb_loop") >>)
  /\ UNCHANGED << in_waiting, njoy, self, dev, rxq, resp, nto, nerr, owed >>

RebootWrite ==
  /\ At("rbt_write")
  /\ PortWrite(Head(pc).c)
  /\ Goto(Tail(pc))
  /\ UNCHANGED << in_waiting, njoy, self, resp, pcall, ncalls, nto >>

\* line 215: while self._send('RMC?')[0] != ''
RebootLoop ==
  /\ At("rb_loop")
  /\ IF resp[1] # << >>
     THEN Goto(send(Cmd("RMC?", 0, 0), TRUE) \o pc)
     ELSE Goto(Tail(pc))
  /\ UNCHANGED << in_waiting, njoy, self, dev, rxq, resp, pcall, tx, ncalls, nto, nerr, owed >>

\* ------------------------------------------------------------ operator
\* Positions the operator drives the stage to with the joystick
JoyPositions == { 0 }

\* While manual input is enabled on an axis (HIN <axis> 1), the operator can
\* move that axis with the joystick, between and during the driver's calls.
JoystickMoves ==
  /\ njoy < MaxJoy /\ Faultless
  /\ njoy' = njoy + 1
  /\ \E p \in JoyPositions :
       \/ dev.hin1 /\ p # dev.x /\ dev' = [dev EXCEPT !.x = p]
       \/ dev.hin2 /\ p # dev.y /\ dev' = [dev EXCEPT !.y = p]
  /\ UNCHANGED << self, rxq, pc, resp, call, pcall, tx, ncalls, nto, nerr, owed,
                  in_waiting >>

\* ---------------------------------------------------------------- Next
Next ==
  \/ SendWrite
  \/ SendReadLine
  \/ SendInWaiting
  \/ ErrWrite
  \/ ErrRead
  \/ PollWrite
  \/ PollRead
  \/ GetPosition
  \/ GetPositionStore
  \/ MoveMM
  \/ MoveJoystick
  \/ MoveTarget
  \/ MoveFlag
  \/ SetVelocity
  \/ SetAcceleration
  \/ SetDeceleration
  \/ SetSettlingTime
  \/ SetTolerance
  \/ ToleranceStore
  \/ EnableJoystick
  \/ JoystickStore
  \/ EnableServo
  \/ ServoStore
  \/ GetCmdList
  \/ CmdListStore
  \/ Reboot
  \/ RebootWrite
  \/ RebootLoop
  \/ JoystickMoves

Spec == Init /\ [][Next]_vars

\* The same program in front of a device that answers every command within
\* the port's timeout and rejects none; the driver, being a sequential
\* program, always takes its next step.
WellBehaved == nto' = nto /\ nerr' = nerr
FairNext ==
  \/ SendWrite /\ WellBehaved
  \/ SendReadLine /\ WellBehaved
  \/ SendInWaiting /\ WellBehaved
  \/ ErrWrite /\ WellBehaved
  \/ ErrRead /\ WellBehaved
  \/ PollWrite /\ WellBehaved
  \/ PollRead /\ WellBehaved
  \/ GetPosition /\ WellBehaved
  \/ GetPositionStore /\ WellBehaved
  \/ MoveMM /\ WellBehaved
  \/ MoveJoystick /\ WellBehaved
  \/ MoveTarget /\ WellBehaved
  \/ MoveFlag /\ WellBehaved
  \/ SetVelocity /\ WellBehaved
  \/ SetAcceleration /\ WellBehaved
  \/ SetDeceleration /\ WellBehaved
  \/ SetSettlingTime /\ WellBehaved
  \/ SetTolerance /\ WellBehaved
  \/ ToleranceStore /\ WellBehaved
  \/ EnableJoystick /\ WellBehaved
  \/ JoystickStore /\ WellBehaved
  \/ EnableServo /\ WellBehaved
  \/ ServoStore /\ WellBehaved
  \/ GetCmdList /\ WellBehaved
  \/ CmdListStore /\ WellBehaved
  \/ Reboot /\ WellBehaved
  \/ RebootWrite /\ WellBehaved
  \/ RebootLoop /\ WellBehaved
  \/ JoystickMoves /\ WellBehaved
FairSpec == Init /\ [][FairNext]_vars /\ WF_vars(FairNext)

\* The tolerance conversions on their own: __init__ has filled the cache from
\* any exit counts and calibrations (lines 43-46), and the only call made is
\* set_positional_tolerance_um() with its defaults, which converts the cached
\* micrometres back to counts (lines 271-274).
MaxCount == 6
ConvEcpus == { 1000, 2000, 3000 }

ConvInit == InitWith(ConvEcpus \X ConvEcpus, 0..MaxCount, MaxCount + 2)

RoundTrip == SetToleranceOf(<< NoArg, NoArg, 1 >>)

ConvNext ==
  \/ RoundTrip
  \/ SendWrite
  \/ SendInWaiting
  \/ ErrWrite
  \/ ErrRead
  \/ ToleranceStore

ConvSpec == ConvInit /\ [][ConvNext]_vars

\* =============================================================== claims
Last(s) == s[Len(s)]
IsSendCmd(c) == c.n \notin {"ERR?", "ENQ", "RBT"}
Ok0 == << CH0, NL >>
JustWrote(n) == At("inwait") /\ tx # << >> /\ Last(tx).n = n

\* C1: every _send that gets past its framing asserts writes exactly one ERR?,
\* directly after its command (and after the response lines were read); the
\* call goes on only when the line read in reply is b'0\n', and on any other
\* reply it raises with that ERR? as the last thing it wrote.
C1_ErrCheckOncePerSend ==
  /\ \A i \in 1..Len(tx) :
       /\ IsSendCmd(tx[i]) =>
            IF i < Len(tx)
            THEN tx[i + 1].n = "ERR?"
            ELSE \/ pc # << >> /\ Head(pc).l \in {"readline", "inwait", "err_write"}
                 \/ pc = << >> /\ call.status = "framing"
       /\ tx[i].n = "ERR?" =>
            /\ i > 1
            /\ tx[i - 1].n = "ERR?" => (i > 2 /\ tx[i - 2] = Cmd("HIN", 2, 1))
  /\ call.status = "device_error" =>
       pc = << >> /\ tx # << >> /\ Last(tx).n = "ERR?" /\ self.error # Ok0
  /\ (tx # << >> /\ Last(tx).n = "ERR?" /\ ~At("err_read")) =>
       (self.error = Ok0 <=> call.status # "device_error")

C1_Witness ==
  /\ call.op = "get_position_mm"
  /\ call.status = "device_error"
  /\ tx = << Cmd("MOV?", 1, 2), Cmd("ERR?", 0, 0) >>
  /\ self.error = << CH1, NL >>

\* C2: when the read loop of a response-expecting _send ends, it has read the
\* lines of the port's input up to and including the first line that is a
\* bare terminator or has no space before its terminator, nothing beyond it,
\* and 'responses' holds exactly those lines, in order, without terminator
\* and trailing spaces.
RECURSIVE SplitLines(_)
SplitLines(s) ==
  LET i == FirstNL(s)
  IN  IF i = 0 THEN << >>
      ELSE << SubSeq(s, 1, i) >> \o SplitLines(SubSeq(s, i + 1, Len(s)))

Final(line) == line = << NL >> \/ line[Len(line) - 1] # SP

RECURSIVE FirstFinal(_, _)
FirstFinal(ls, k) ==
  IF k > Len(ls) THEN 0
  ELSE IF Final(ls[k]) THEN k
  ELSE FirstFinal(ls, k + 1)

RECURSIVE DropSpaces(_)
DropSpaces(s) ==
  IF s # << >> /\ Last(s) = SP THEN DropSpaces(SubSeq(s, 1, Len(s) - 1)) ELSE s

Stripped(line) == DropSpaces(SubSeq(line, 1, Len(line) - 1))

C2_FramingTermination ==
  (At("inwait") /\ tx # << >> /\ IsQuery(Last(tx))) =>
    LET ls == SplitLines(owed)
        k == FirstFinal(ls, 1)
    IN  /\ k > 0
        /\ resp = [i \in 1..k |-> Stripped(ls[i])]
        /\ owed = Flatten(SubSeq(ls, 1, k)) \o rxq

C2_Witness ==
  /\ JustWrote("HLP?")
  /\ owed = << CHA, SP, NL, CHA, NL >>
  /\ resp = << << CHA >>, << CHA >> >>

\* C3: a MOV is written only while the moving flag is false; a move_mm entered
\* while moving has polled the motion status before its MOV; a call writes at
\* most one MOV.
C3_OneOutstandingMove ==
  /\ JustWrote("MOV") => ~self.moving
  /\ \A i \in 1..Len(tx) :
       tx[i].n = "MOV" =>
         /\ (call.op = "move_mm" /\ call.pre.moving) =>
              \E j \in 1..(i - 1) : tx[j].n = "ENQ"
         /\ \A j \in 1..Len(tx) : tx[j].n = "MOV" => j = i

C3_Witness ==
  /\ call.op = "move_mm"
  /\ call.pre.moving
  /\ JustWrote("MOV")

\* C4 (as amended): when the joystick starts enabled and move_mm is called
\* twice from IDLE, the first call with block=False, each call sends the
\* joystick-disable commands once, before its MOV (twice across the pair); the
\* joystick-enable commands are sent once when the second call's completion
\* poll finds the first move settled, before the second call's disable
\* commands, and once more after the second move has settled when the second
\* call blocks.
Disable == << Cmd("HIN", 1, 0), Cmd("HIN", 2, 0) >>
Enable == << Cmd("HIN", 1, 1), Cmd("HIN", 2, 1) >>
Count(s, c) == Cardinality({ i \in 1..Len(s) : s[i] = c })

MovePair ==
  /\ pcall.op = "move_mm" /\ pcall.status = "returned"
  /\ ~pcall.block /\ pcall.joy /\ ~pcall.mov
  /\ call.op = "move_mm" /\ call.status = "returned"

C4_JoystickPerMove ==
  MovePair =>
    /\ pcall.hin = Disable
    /\ SelectSeq(tx, IsHin) =
         Enable \o Disable \o (IF call.block THEN Enable ELSE << >>)

C4_Witness == MovePair /\ call.block /\ Count(tx, Cmd("ENQ", 0, 0)) >= 2

\* C4 as stated: across the pair the disable commands are sent exactly once and
\* the enable commands exactly once, after the second move has settled.
C4_Original ==
  MovePair =>
    LET h == pcall.hin \o SelectSeq(tx, IsHin)
    IN  /\ Count(h, Disable[1]) = 1 /\ Count(h, Disable[2]) = 1
        /\ call.block =>
             /\ Count(h, Enable[1]) = 1 /\ Count(h, Enable[2]) = 1
             /\ SubSeq(h, Len(h) - 1, Len(h)) = Enable

\* C5 as stated: an absolute move_mm whose target is outside the limits
\* raises a range error and writes nothing to the port during the call.
OutOfLimits(s, x, y) == x < s.x_min \/ x > s.x_max \/ y < s.y_min \/ y > s.y_max

C5_Original ==
  (call.op = "move_mm" /\ ~call.rel /\ OutOfLimits(call.pre, call.a[1], call.b[1])) =>
    /\ tx = << >>
    /\ pc = << >> => call.status = "range"

\* C6: every MOV written carries a target inside the cached axis limits.
C6_MovWithinLimits ==
  \A i \in 1..Len(tx) :
    tx[i].n = "MOV" => ~OutOfLimits(self, tx[i].a, tx[i].b)

C6_Witness ==
  /\ call.op = "move_mm" /\ call.rel
  /\ JustWrote("MOV")
  /\ Last(tx).a = X_max

\* C7 as stated: a call that ends with a range error or a device error leaves
\* every cached field as it was at entry.
CacheOps == { "set_velocity", "set_acceleration", "set_deceleration",
              "set_settling_time_ms", "set_positional_tolerance_um",
              "move_mm", "get_position_mm" }

Cache(s) == << s.x, s.y, s.xptc, s.yptc, s.xpt, s.ypt, s.xst, s.yst,
               s.xv, s.yv, s.xa, s.ya, s.xd, s.yd >>

C7_Original ==
  (call.op \in CacheOps /\ call.status \in {"range", "device_error"}) =>
    Cache(self) = Cache(call.pre)

\* C8 as stated: set_positional_tolerance_um rejects, writing nothing, every
\* request whose exit count on either axis is >= that axis's upper bound or
\* whose exit count minus the margin count is <= 0.
TolOp == "set_positional_tolerance_um"

C8_Original ==
  call.op = TolOp =>
    LET t == TolCounts(call.pre, << call.a, call.b >>, call.m)
    IN  ( \/ t.xptc >= call.pre.xptc_max \/ t.yptc >= call.pre.yptc_max
          \/ t.xptc - t.margin_counts <= 0 \/ t.yptc - t.margin_counts <= 0 ) =>
        (call.status = "range" /\ tx = << >>)

\* C9 as stated: a rejected set_positional_tolerance_um leaves the cached exit
\* counts and micrometre values as they were, so each micrometre value still
\* is 1000 * exit_counts / counts_per_unit.
C9_Original ==
  (call.op = TolOp /\ call.status = "range") =>
    /\ self.xptc = call.pre.xptc /\ self.yptc = call.pre.yptc
    /\ self.xpt = call.pre.xpt /\ self.ypt = call.pre.ypt
    /\ self.xpt = CountsToUm(self.xptc, self.x_ecpu)
    /\ self.ypt = CountsToUm(self.yptc, self.y_ecpu)

\* C10 as stated, at the status requests of the completion poll: a request
\* 0x05 is written only when every byte owed for the earlier writes has been
\* read.
C10_Original ==
  [][(Len(tx') > Len(tx) /\ Last(tx').n = "ENQ") => rxq = << >>]_vars

\* the same for every write
C10_AnyWrite == [][Len(tx') > Len(tx) => rxq = << >>]_vars

\* C11: a _send never gets past a mis-framed transaction. A line read for the
\* response that does not end with the terminator (also an empty read after
\* the timeout) ends the call with the framing error; so does pending input
\* seen by the port after the read loop, or right after the write when no
\* response is expected. The call then returns no response lines.
Taken == SubSeq(rxq, 1, Len(rxq) - Len(rxq'))
DriverStep == pc' # pc \/ resp' # resp \/ call' # call
Framing == pc = << >> /\ call.status = "framing"

C11_MisframedSendRaises ==
  [][ DriverStep =>
        /\ (At("readline") /\ ~endswithNL(Taken)) => (Framing' /\ resp' = resp)
        /\ (At("inwait") /\ in_waiting' # 0) => Framing'
        /\ (At("inwait") /\ in_waiting' = 0) => (rxq' = rxq /\ pc' = Tail(pc)) ]_vars

C11_Witness ==
  /\ Framing
  /\ call.op = "_get_cmd_list"
  /\ in_waiting = 2
  /\ tx = << Cmd("HLP?", 0, 0) >>

\* C12: _finish_moving. Not moving: nothing is written and nothing changes.
\* Moving: 0x05 is written and up to 2 bytes are read, again and again until
\* the bytes read are b'0\n'; then the moving flag is cleared; then, with the
\* joystick flag set, HIN 1 1 and HIN 2 1 are sent; then ERR? is sent.
EnqC == Cmd("ENQ", 0, 0)
ErrC == Cmd("ERR?", 0, 0)
AfterSettle(joy) ==
  (IF joy THEN << Enable[1], ErrC, Enable[2], ErrC >> ELSE << >>) \o << ErrC >>
Polling == At("poll_write") \/ At("poll_read")

C12_State ==
  /\ (call.op = "move_mm" /\ ~call.pre.moving) =>
       /\ tx = << >> \/ tx[1] # EnqC
       /\ At("mv_joy") => (tx = << >> /\ self = call.pre)
  /\ Polling => self.moving
  /\ \A i \in 1..Len(tx) :
       tx[i] = EnqC =>
         /\ call.op = "move_mm"
         /\ \/ i = 1 /\ call.pre.moving
            \/ i > 1 /\ tx[i - 1] = EnqC
            \/ i > 2 /\ call.block /\ tx[i - 1] = ErrC /\ tx[i - 2].n = "MOV"
         /\ (i = Len(tx) /\ ~Polling) => ~self.moving
         /\ (i < Len(tx) /\ tx[i + 1] # EnqC) =>
              LET after == AfterSettle(self.joystick_enabled)
              IN  \A k \in 1..Len(after) :
                    i + k <= Len(tx) => tx[i + k] = after[k]

C12_Step ==
  (DriverStep /\ At("poll_read")) =>
    /\ Len(Taken) <= 2
    /\ IF Taken = Ok0
       THEN ~self'.moving /\ ~Polling'
       ELSE self' = self /\ At("poll_write")' /\ Tail(Tail(pc')) = Tail(pc)

C12_FinishMoving == []C12_State /\ [][C12_Step]_vars

C12_Witness ==
  /\ call.op = "move_mm" /\ call.pre.moving
  /\ self.joystick_enabled /\ ~self.moving
  /\ At("mv_joy")
  /\ tx = << EnqC, EnqC >> \o AfterSettle(TRUE)

\* C13: the moving flag is false after __init__; it becomes true only in
\* move_mm, when the last things written are the MOV and its ERR? and the line
\* read for that ERR? was b'0\n'; it becomes false only in the completion
\* poll, on reading b'0\n'; no other step changes it.
C13_Step ==
  /\ (~self.moving /\ self'.moving) =>
       /\ call.op = "move_mm" /\ At("mv_flag")
       /\ Len(tx) >= 2 /\ Last(tx) = ErrC /\ tx[Len(tx) - 1].n = "MOV"
       /\ self.error = Ok0
       /\ tx' = tx
  /\ (self.moving /\ ~self'.moving) =>
       /\ call.op = "move_mm" /\ At("poll_read")
       /\ Taken = Ok0
       /\ Last(tx) = EnqC

C13_MovingFlag == ~self.moving /\ [][C13_Step]_vars

C13_Witness ==
  /\ call.op = "move_mm" /\ call.status = "returned"
  /\ call.pre.moving /\ ~call.block
  /\ self.moving

\* C14: in front of a device that answers in time, rejects nothing, and
\* reports 'not settled' on the first n - 1 status requests after a MOV and
\* settled on the n-th: a blocking absolute move_mm to an in-range target,
\* entered while not moving and with nothing pending on the port, returns;
\* while it polls the moving flag is set; it polls again only after a reply
\* 'not settled' and stops after the first reply 'settled', n requests in all;
\* on return the moving flag is clear and the cached position is the target.
BlockingMove ==
  /\ call.op = "move_mm" /\ ~call.rel /\ call.block
  /\ ~call.pre.moving /\ call.rx = << >>
  /\ ~OutOfLimits(call.pre, call.a[1], call.b[1])

C14_State ==
  BlockingMove =>
    /\ (At("poll_write") /\ tx # << >> /\ Last(tx) = EnqC) => owed = << CH1, NL >>
    /\ (tx # << >> /\ Last(tx) = EnqC /\ ~Polling) => owed = Ok0
    /\ Polling => (self.moving /\ self.x = call.a[1] /\ self.y = call.b[1])
    /\ call.status = "returned" =>
         /\ ~self.moving
         /\ self.x = call.a[1] /\ self.y = call.b[1]
         /\ Count(tx, EnqC) >= 1
         /\ Cardinality({ i \in 1..Len(tx) : tx[i].n = "MOV" }) = 1
         /\ dev.busy = 0

C14_Entered ==
  /\ BlockingMove /\ call.status = "running"
  /\ tx = << >>

C14_BlockingMoveSettles ==
  /\ []C14_State
  /\ C14_Entered ~> (BlockingMove /\ call.status = "returned")

C14_Witness ==
  /\ BlockingMove /\ call.status = "returned"
  /\ Count(tx, EnqC) = 3

\* C15 as stated: counts -> micrometres (as the cache is filled) -> counts
\* (as set_positional_tolerance_um converts) gives the original count within
\* +/-1, on each axis.
Near(a, b) == a - b \in { -1, 0, 1 }

FromFilledCache ==
  /\ call.op = TolOp /\ call.a = NoArg /\ call.b = NoArg
  /\ call.pre.xpt = CountsToUm(call.pre.xptc, call.pre.x_ecpu)
  /\ call.pre.ypt = CountsToUm(call.pre.yptc, call.pre.y_ecpu)

C15_Original ==
  FromFilledCache =>
    /\ Near(self.xptc, call.pre.xptc)
    /\ Near(self.yptc, call.pre.yptc)

\* the x axis alone, and the y axis when both axes have the same calibration
C15_SameCalibration ==
  FromFilledCache =>
    /\ Near(self.xptc, call.pre.xptc)
    /\ self.x_ecpu = self.y_ecpu => Near(self.yptc, call.pre.yptc)

C15_Inexact ==
  /\ FromFilledCache
  /\ self.xptc = call.pre.xptc - 1

\* C16: a relative move_mm with the joystick flag set writes its MOV only
\* after HIN 1 0, HIN 2 0 (each with its error check) and then MOV? 1 2 (with
\* its error check), in this order and directly before the MOV; when the MOV
\* is about to be written manual input is off on both axes of the device, and
\* the target is the position the device has had since then plus the
\* requested delta, whatever was cached at entry.
RelativeJoystickMove ==
  call.op = "move_mm" /\ call.rel /\ call.pre.joystick_enabled

BeforeRelativeMov ==
  << Disable[1], ErrC, Disable[2], ErrC, Cmd("MOV?", 1, 2), ErrC >>

C16_RelativeMoveOrder ==
  RelativeJoystickMove =>
    /\ \A i \in 1..Len(tx) :
         tx[i].n = "MOV" =>
           (i > 6 /\ SubSeq(tx, i - 6, i - 1) = BeforeRelativeMov)
    /\ (At("write") /\ Head(pc).c.n = "MOV") =>
         /\ Len(tx) >= 6
         /\ SubSeq(tx, Len(tx) - 5, Len(tx)) = BeforeRelativeMov
         /\ ~dev.hin1 /\ ~dev.hin2
         /\ self.x = dev.x + call.a[1] /\ self.y = dev.y + call.b[1]
         /\ Head(pc).c = Cmd("MOV", Fmt9(dev.x + call.a[1]), Fmt9(dev.y + call.b[1]))

C16_Witness ==
  /\ RelativeJoystickMove
  /\ At("write") /\ Head(pc).c.n = "MOV"
  /\ njoy = 1
  /\ call.pre.x # dev.x
  /\ OutOfLimits(call.pre, call.pre.x + call.a[1], call.pre.y + call.b[1])

\* C17 as stated: the exit counts a successful set_positional_tolerance_um
\* transmits (SPA ... 0x407) are, for each axis, the requested micrometres
\* converted with that axis's own counts per unit, and each axis is checked
\* against the margin converted with its own counts per unit.
Requested(s) == [ xpt |-> Given(call.a, s.xpt), ypt |-> Given(call.b, s.ypt) ]

C17_Original ==
  (call.op = TolOp /\ call.status = "returned") =>
    LET r == Requested(call.pre)
        exit == tx[1]
    IN  /\ exit.n = "SPA 0x407"
        /\ exit.a = UmToCounts(r.xpt, call.pre.x_ecpu)
        /\ exit.b = UmToCounts(r.ypt, call.pre.y_ecpu)
        /\ exit.a - UmToCounts(call.m, call.pre.x_ecpu) > 0
        /\ exit.b - UmToCounts(call.m, call.pre.y_ecpu) > 0

\* what the code transmits instead: both axes converted with x_ecpu
C17_BothWithXCalibration ==
  (call.op = TolOp /\ call.status = "returned") =>
    LET r == Requested(call.pre)
    IN  /\ tx[1].n = "SPA 0x407"
        /\ tx[1].a = UmToCounts(r.xpt, call.pre.x_ecpu)
        /\ tx[1].b = UmToCounts(r.ypt, call.pre.x_ecpu)

\* C18 as stated, for runs in which no reply is late and the device rejects
\* nothing: after a public call has returned or raised, whenever the moving
\* flag is false, manual input on both axes of the device is enabled exactly
\* when the driver's joystick flag is set.
C18_Original ==
  (pc = << >> /\ ~self.moving /\ Faultless /\ call.rx = << >>) =>
    /\ dev.hin1 = self.joystick_enabled
    /\ dev.hin2 = self.joystick_enabled

\* C19 as stated: a move_mm that raises on the limits leaves a cached
\* position inside the limits.
C19_Original ==
  (call.op = "move_mm" /\ call.status = "range") => InLimits(self)

\* C20 as stated, for runs in which no reply is late and the device rejects
\* nothing: after a successful set_deceleration that followed only successful
\* calls, the cached rates are the device's rates.
RatesOf(s) == << s.xv, s.yv, s.xa, s.ya, s.xd, s.yd >>

C20_Original ==
  ( /\ call.op = "set_deceleration" /\ call.status = "returned"
    /\ pcall.status \in { "", "returned" }
    /\ Faultless ) =>
    RatesOf(self) = RatesOf(dev)

\* C21 as stated, for runs in which no reply is late and the device rejects
\* nothing: whenever set_positional_tolerance_um has written the
\* 'window enter 0' counts (SPA ... 0x406), the exit counts (SPA ... 0x407)
\* were written before them, and on each axis the enter count is the exit
\* count minus margin_counts, at least 1 and at most the exit count.
MarginCounts == TolCounts(call.pre, << call.a, call.b >>, call.m).margin_counts

C21_Original ==
  (call.op = TolOp /\ Faultless) =>
    \A i \in 1..Len(tx) :
      tx[i].n = "SPA 0x406" =>
        /\ i = 3 /\ tx[1].n = "SPA 0x407"
        /\ tx[i].a = tx[1].a - MarginCounts
        /\ tx[i].b = tx[1].b - MarginCounts
        /\ 1 <= tx[i].a /\ tx[i].a <= tx[1].a
        /\ 1 <= tx[i].b /\ tx[i].b <= tx[1].b

\* what the code transmits instead: the exit count minus the margin in
\* micrometres, cut to an integer by '%i'; the order of the two commands is
\* as stated
C21_MarginInMicrometres ==
  call.op = TolOp =>
    \A i \in 1..Len(tx) :
      tx[i].n = "SPA 0x406" =>
        /\ i = 3 /\ tx[1].n = "SPA 0x407" /\ tx[2] = ErrC
        /\ tx[i].a = EnterArg(tx[1].a, call.m)
        /\ tx[i].b = EnterArg(tx[1].b, call.m)

====
